---- MODULE Spec2Model ----
(***************************************************************************)
(* data_forest: BinarySearchTree, AVLTree and RedBlackTree.                *)
(*                                                                         *)
(* A tree node is a record; an empty child slot (Option::None) is Nil.     *)
(* The three containers are driven in lockstep by the same insert/remove   *)
(* calls, next to the mathematical set S of keys they are meant to hold.   *)
(***************************************************************************)
EXTENDS Integers, Sequences, FiniteSets, TLC

\* Keys of the general insert/remove exploration: 1..MaxKey.
MaxKey == 5

\* Keys of the sequential (ascending / descending) runs: 1..MaxSeq.
\* Keys 1..MaxShape (with 10 and 12) feed the rotation-free insert sequences.
MaxShape == 8

MaxSeq == 20

\* Keys 1..MaxPartial and NaN feed the partial-order insert/remove sequences.
MaxPartial == 3

\* sequential_insert_maintains_balance inserts 1..=TestRunLen and expects
\* height() <= TestRunHeight.
TestRunLen == 20

TestRunHeight == 10

Keys == 1..MaxKey

SeqKeys == 1..MaxSeq

\* The keys of the lists [5,3,7,2,4,6,8], [4,2,6,1,3,5], [8,4,12,2,6,10,1,7].
ShapeKeys == (1..MaxShape) \cup {10, 12}

VARIABLES bst, avl, rb, S, lastOp, lastKey, lastHad

vars == <<bst, avl, rb, S, lastOp, lastKey, lastHad>>

(***************************************************************************)
(* Option<T>, Option<Box<Node>> and the comparison of keys                 *)
(***************************************************************************)

\* Option<Box<..Node<T>>>::None, an empty child slot or an empty root.
Nil == [kind |-> "nil"]

\* The outcome of a failed unwrap()/expect()/unreachable!().
Panic == [kind |-> "panic"]

\* Option<T>::None / Some(x) for the cached extremes and query results.
None == <<>>

Some(x) == <<x>>

\* A key of a partially ordered type that is incomparable with every key,
\* itself included (as f64::NAN is): partial_cmp answers None for it.
NaN == -1

\* T::partial_cmp: the integer keys are totally ordered, NaN is incomparable.
partial_cmp(a, b) ==
  IF a = NaN \/ b = NaN THEN "None"
  ELSE IF a < b THEN "Less" ELSE IF a > b THEN "Greater" ELSE "Equal"

\* PartialOrd's ==, < and > on keys.
eq(a, b) == partial_cmp(a, b) = "Equal"

lt(a, b) == partial_cmp(a, b) = "Less"

gt(a, b) == partial_cmp(a, b) = "Greater"

(***************************************************************************)
(* Red-Black tree: node.rs                                                 *)
(***************************************************************************)

RBNode_new(value) ==
  [value |-> value, left |-> Nil, right |-> Nil, color |-> "Red"]

is_red(n) == n.color = "Red"

is_black(n) == n.color = "Black"

is_red_node(node) == IF node = Nil THEN FALSE ELSE is_red(node)

toggle(c) == IF c = "Red" THEN "Black" ELSE "Red"

rotate_left(self) ==
  IF self.right = Nil THEN Panic
  ELSE LET new_root == self.right
       IN [new_root EXCEPT
             !.color = self.color,
             !.left = [self EXCEPT !.color = "Red", !.right = new_root.left]]

\* rotate_right that loses the promoted node's right subtree.
rotate_right_drop_inner(self) ==
  IF self.left = Nil THEN Panic
  ELSE LET new_root == self.left
       IN [new_root EXCEPT
             !.color = self.color,
             !.right = [self EXCEPT !.color = "Red", !.left = Nil]]

\* rotate_right that leaves the demoted node's colour as it was.
rotate_right_keep_colour(self) ==
  IF self.left = Nil THEN Panic
  ELSE LET new_root == self.left
       IN [new_root EXCEPT
             !.color = self.color,
             !.right = [self EXCEPT !.left = new_root.right]]

rotate_right(self) ==
  IF self.left = Nil THEN Panic
  ELSE LET new_root == self.left
       IN [new_root EXCEPT
             !.color = self.color,
             !.right = [self EXCEPT !.color = "Red", !.left = new_root.right]]

flip_colors(self) ==
  [self EXCEPT
     !.color = toggle(@),
     !.left = IF @ = Nil THEN @ ELSE [@ EXCEPT !.color = toggle(@)],
     !.right = IF @ = Nil THEN @ ELSE [@ EXCEPT !.color = toggle(@)]]

(***************************************************************************)
(* Red-Black tree: rb_operations.rs, insert                                *)
(***************************************************************************)

\* balance with the colour flip only, the two rotations left out.
balance_no_rotation(node) ==
  IF is_red_node(node.left) /\ is_red_node(node.right)
  THEN flip_colors(node) ELSE node

balance(node) ==
  LET n1 == IF is_red_node(node.right) /\ ~is_red_node(node.left)
            THEN rotate_left(node) ELSE node
      n2 == IF is_red_node(n1.left) /\ is_red_node(n1.left.left)
            THEN rotate_right(n1) ELSE n1
  IN IF is_red_node(n2.left) /\ is_red_node(n2.right)
     THEN flip_colors(n2) ELSE n2

RECURSIVE insert_recursive(_, _)
insert_recursive(node, value) ==
  IF node = Nil THEN RBNode_new(value)
  ELSE CASE partial_cmp(value, node.value) = "Less" ->
              balance([node EXCEPT !.left = insert_recursive(@, value)])
         [] partial_cmp(value, node.value) = "Greater" ->
              balance([node EXCEPT !.right = insert_recursive(@, value)])
         [] OTHER -> node

\* The cache update with the maximum compared the wrong way round.
cache_on_insert_swapped(t, value) ==
  IF t.min_value = None /\ t.max_value = None
  THEN [min_value |-> Some(value), max_value |-> Some(value)]
  ELSE IF t.min_value # None /\ t.max_value # None
  THEN [min_value |-> IF lt(value, t.min_value[1]) THEN Some(value) ELSE t.min_value,
        max_value |-> IF lt(value, t.max_value[1]) THEN Some(value) ELSE t.max_value]
  ELSE Panic

\* The min/max cache update at the head of BinarySearchTree::insert and
\* RedBlackTree::insert (the two are the same code).
cache_on_insert(t, value) ==
  IF t.min_value = None /\ t.max_value = None
  THEN [min_value |-> Some(value), max_value |-> Some(value)]
  ELSE IF t.min_value # None /\ t.max_value # None
  THEN [min_value |-> IF lt(value, t.min_value[1]) THEN Some(value) ELSE t.min_value,
        max_value |-> IF gt(value, t.max_value[1]) THEN Some(value) ELSE t.max_value]
  ELSE Panic

RB_insert(t, value) ==
  LET c == cache_on_insert(t, value)
      r == insert_recursive(t.root, value)
  IN IF c = Panic THEN [root |-> Panic, min_value |-> None, max_value |-> None]
     ELSE [root |-> IF r = Nil THEN r ELSE [r EXCEPT !.color = "Black"],
           min_value |-> c.min_value,
           max_value |-> c.max_value]

(***************************************************************************)
(* Red-Black tree: rb_operations.rs, remove                                *)
(***************************************************************************)

\* move_red_left without its rotation case: the colours are flipped only.
move_red_left_no_rotation(node) == flip_colors(node)

move_red_left(node) ==
  LET n1 == flip_colors(node)
  IN IF n1.right # Nil /\ is_red_node(n1.right.left)
     THEN flip_colors(rotate_left([n1 EXCEPT !.right = rotate_right(@)]))
     ELSE n1

move_red_right(node) ==
  LET n1 == flip_colors(node)
  IN IF n1.left # Nil /\ is_red_node(n1.left.left)
     THEN flip_colors(rotate_right(n1))
     ELSE n1

\* fix_up without its second case: a Red left child with a Red left child
\* is not rotated right.
fix_up_no_right_rotation(node) ==
  LET n1 == IF is_red_node(node.right) THEN rotate_left(node) ELSE node
  IN IF is_red_node(n1.left) /\ is_red_node(n1.right)
     THEN flip_colors(n1) ELSE n1

\* fix_up without its first case: a Red right child is left where it is.
fix_up_no_left_rotation(node) ==
  LET n2 == IF is_red_node(node.left) /\ is_red_node(node.left.left)
            THEN rotate_right(node) ELSE node
  IN IF is_red_node(n2.left) /\ is_red_node(n2.right)
     THEN flip_colors(n2) ELSE n2

fix_up(node) ==
  LET n1 == IF is_red_node(node.right) THEN rotate_left(node) ELSE node
      n2 == IF is_red_node(n1.left) /\ is_red_node(n1.left.left)
            THEN rotate_right(n1) ELSE n1
  IN IF is_red_node(n2.left) /\ is_red_node(n2.right)
     THEN flip_colors(n2) ELSE n2

\* find_min that stops at the root of the subtree instead of walking left.
find_min_no_walk(node) == IF node = Nil THEN Panic ELSE node.value

RECURSIVE find_min(_)
find_min(node) ==
  IF node = Nil THEN Panic
  ELSE IF node.left # Nil THEN find_min(node.left) ELSE node.value

RECURSIVE remove_min(_)
remove_min(node) ==
  IF node = Nil THEN Nil
  ELSE IF node.left = Nil THEN Nil
  ELSE LET n1 == IF ~is_red_node(node.left) /\ ~is_red_node(node.left.left)
                 THEN move_red_left(node) ELSE node
       IN fix_up([n1 EXCEPT !.left = remove_min(@)])

RECURSIVE remove_recursive(_, _)
remove_recursive(node, value) ==
  IF node = Nil THEN Nil
  ELSE IF partial_cmp(value, node.value) = "Less"
  THEN IF node.left # Nil
       THEN LET n1 == IF ~is_red_node(node.left) /\ ~is_red_node(node.left.left)
                      THEN move_red_left(node) ELSE node
            IN fix_up([n1 EXCEPT !.left = remove_recursive(@, value)])
       ELSE fix_up(node)
  ELSE LET n1 == IF is_red_node(node.left) THEN rotate_right(node) ELSE node
       IN IF partial_cmp(value, n1.value) = "Equal" /\ n1.right = Nil
          THEN Nil
          ELSE IF n1.right # Nil
          THEN LET n2 == IF ~is_red_node(n1.right) /\ ~is_red_node(n1.right.left)
                         THEN move_red_right(n1) ELSE n1
               IN IF partial_cmp(value, n2.value) = "Equal"
                  THEN fix_up([n2 EXCEPT !.value = find_min(n2.right),
                                         !.right = remove_min(n2.right)])
                  ELSE fix_up([n2 EXCEPT !.right = remove_recursive(@, value)])
          ELSE fix_up(n1)

\* The node at which remove_min(node) returns None, as it is at that moment
\* (Nil when the call detaches nothing).
RECURSIVE detached_by_remove_min(_)
detached_by_remove_min(node) ==
  IF node = Nil THEN Nil
  ELSE IF node.left = Nil THEN node
  ELSE LET n1 == IF ~is_red_node(node.left) /\ ~is_red_node(node.left.left)
                 THEN move_red_left(node) ELSE node
       IN detached_by_remove_min(n1.left)

\* The node that remove_recursive(node, value) physically detaches, as it is
\* at that moment: where the call returns None for the matching key, or where
\* remove_min returns None for the successor (Nil when nothing is detached).
RECURSIVE detached_by_remove(_, _)
detached_by_remove(node, value) ==
  IF node = Nil THEN Nil
  ELSE IF partial_cmp(value, node.value) = "Less"
  THEN IF node.left # Nil
       THEN LET n1 == IF ~is_red_node(node.left) /\ ~is_red_node(node.left.left)
                      THEN move_red_left(node) ELSE node
            IN detached_by_remove(n1.left, value)
       ELSE Nil
  ELSE LET n1 == IF is_red_node(node.left) THEN rotate_right(node) ELSE node
       IN IF partial_cmp(value, n1.value) = "Equal" /\ n1.right = Nil
          THEN n1
          ELSE IF n1.right # Nil
          THEN LET n2 == IF ~is_red_node(n1.right) /\ ~is_red_node(n1.right.left)
                         THEN move_red_right(n1) ELSE n1
               IN IF partial_cmp(value, n2.value) = "Equal"
                  THEN detached_by_remove_min(n2.right)
                  ELSE detached_by_remove(n2.right, value)
          ELSE Nil

\* The test of fix_up's first case: TRUE iff fix_up(node) rotates node left.
fix_up_rotates_left(node) == is_red_node(node.right)

\* The nodes that remove_min(node) hands to fix_up, each as it is when
\* fix_up is called on it.
RECURSIVE fix_up_args_min(_)
fix_up_args_min(node) ==
  IF node = Nil THEN {}
  ELSE IF node.left = Nil THEN {}
  ELSE LET n1 == IF ~is_red_node(node.left) /\ ~is_red_node(node.left.left)
                 THEN move_red_left(node) ELSE node
       IN {[n1 EXCEPT !.left = remove_min(@)]} \cup fix_up_args_min(n1.left)

\* The nodes that remove_recursive(node, value) hands to fix_up, directly or
\* through remove_min, each as it is when fix_up is called on it.
RECURSIVE fix_up_args(_, _)
fix_up_args(node, value) ==
  IF node = Nil THEN {}
  ELSE IF partial_cmp(value, node.value) = "Less"
  THEN IF node.left # Nil
       THEN LET n1 == IF ~is_red_node(node.left) /\ ~is_red_node(node.left.left)
                      THEN move_red_left(node) ELSE node
            IN {[n1 EXCEPT !.left = remove_recursive(@, value)]}
                 \cup fix_up_args(n1.left, value)
       ELSE {node}
  ELSE LET n1 == IF is_red_node(node.left) THEN rotate_right(node) ELSE node
       IN IF partial_cmp(value, n1.value) = "Equal" /\ n1.right = Nil
          THEN {}
          ELSE IF n1.right # Nil
          THEN LET n2 == IF ~is_red_node(n1.right) /\ ~is_red_node(n1.right.left)
                         THEN move_red_right(n1) ELSE n1
               IN IF partial_cmp(value, n2.value) = "Equal"
                  THEN {[n2 EXCEPT !.value = find_min(n2.right),
                                   !.right = remove_min(n2.right)]}
                         \cup fix_up_args_min(n2.right)
                  ELSE {[n2 EXCEPT !.right = remove_recursive(@, value)]}
                         \cup fix_up_args(n2.right, value)
          ELSE {n1}

(***************************************************************************)
(* Queries.  contains, refind_min, refind_max, height, the four traversals,*)
(* number_of_elements, ceil and floor are the same code in                 *)
(* bst_operations.rs, avl_operations.rs and rb_operations.rs; they read    *)
(* only value, left and right, so one definition serves the three trees.   *)
(* Each loop is an operator over the loop's variables.                     *)
(***************************************************************************)

Pop(stack) == SubSeq(stack, 1, Len(stack) - 1)

Last(stack) == stack[Len(stack)]

\* std::ptr::eq on two boxed nodes of one tree: the nodes of a tree hold
\* pairwise different keys, so two references are the same box exactly when
\* the nodes are equal.
ptr_eq(a, b) == a = b

\* contains that descends to the wrong side.
RECURSIVE contains_swapped(_, _)
contains_swapped(cursor, value) ==
  IF cursor = Nil THEN FALSE
  ELSE CASE partial_cmp(value, cursor.value) = "Less" ->
              contains_swapped(cursor.right, value)
         [] partial_cmp(value, cursor.value) = "Greater" ->
              contains_swapped(cursor.left, value)
         [] partial_cmp(value, cursor.value) = "Equal" -> TRUE
         [] OTHER -> FALSE

RECURSIVE contains(_, _)
contains(cursor, value) ==
  IF cursor = Nil THEN FALSE
  ELSE CASE partial_cmp(value, cursor.value) = "Less" -> contains(cursor.left, value)
         [] partial_cmp(value, cursor.value) = "Greater" -> contains(cursor.right, value)
         [] partial_cmp(value, cursor.value) = "Equal" -> TRUE
         [] OTHER -> FALSE

\* refind_min answering with the first node it is given.
refind_min_no_walk(cursor) ==
  IF cursor = Nil THEN None ELSE Some(cursor.value)

RECURSIVE refind_min(_)
refind_min(cursor) ==
  IF cursor = Nil THEN None
  ELSE IF cursor.left # Nil THEN refind_min(cursor.left) ELSE Some(cursor.value)

RECURSIVE refind_max(_)
refind_max(cursor) ==
  IF cursor = Nil THEN None
  ELSE IF cursor.right # Nil THEN refind_max(cursor.right) ELSE Some(cursor.value)

\* The for-loop of height() pushing the left children only.
RECURSIVE next_level_left_only(_)
next_level_left_only(queue) ==
  IF queue = <<>> THEN <<>>
  ELSE LET node == Head(queue)
       IN (IF node.left # Nil THEN <<node.left>> ELSE <<>>)
          \o next_level_left_only(Tail(queue))

\* The for-loop of height(): pops one level, pushes its children.
RECURSIVE next_level(_)
next_level(queue) ==
  IF queue = <<>> THEN <<>>
  ELSE LET node == Head(queue)
       IN (IF node.left # Nil THEN <<node.left>> ELSE <<>>)
          \o (IF node.right # Nil THEN <<node.right>> ELSE <<>>)
          \o next_level(Tail(queue))

\* The height loop counting every level, the last one included.
RECURSIVE height_loop_levels(_, _)
height_loop_levels(h, queue) ==
  IF queue = <<>> THEN h
  ELSE height_loop_levels(h + 1, next_level(queue))

RECURSIVE height_loop(_, _)
height_loop(h, queue) ==
  IF queue = <<>> THEN h
  ELSE LET q == next_level(queue)
       IN height_loop(IF q # <<>> THEN h + 1 ELSE h, q)

height(root) == IF root = Nil THEN 0 ELSE height_loop(0, <<root>>)

\* The pre_order loop descending to the right first.
RECURSIVE pre_order_loop_right_first(_, _, _)
pre_order_loop_right_first(result, stack, current) ==
  IF current # Nil
  THEN pre_order_loop_right_first(Append(result, current.value),
                                  Append(stack, current), current.right)
  ELSE IF stack = <<>> THEN result
  ELSE pre_order_loop_right_first(result, Pop(stack), Last(stack).left)

RECURSIVE pre_order_loop(_, _, _)
pre_order_loop(result, stack, current) ==
  IF current # Nil
  THEN pre_order_loop(Append(result, current.value), Append(stack, current),
                      current.left)
  ELSE IF stack = <<>> THEN result
  ELSE pre_order_loop(result, Pop(stack), Last(stack).right)

pre_order(root) == pre_order_loop(<<>>, <<>>, root)

RECURSIVE in_order_loop(_, _, _)
in_order_loop(result, stack, current) ==
  IF current # Nil
  THEN in_order_loop(result, Append(stack, current), current.left)
  ELSE IF stack = <<>> THEN result
  ELSE in_order_loop(Append(result, Last(stack).value), Pop(stack),
                     Last(stack).right)

in_order(root) == in_order_loop(<<>>, <<>>, root)

\* The post_order loop emitting a node before it descends to the right.
RECURSIVE post_order_loop_emit_early(_, _, _, _)
post_order_loop_emit_early(result, stack, current, last_visited) ==
  IF current # Nil
  THEN post_order_loop_emit_early(result, Append(stack, current), current.left,
                                  last_visited)
  ELSE IF stack = <<>> THEN result
  ELSE LET node == Last(stack)
       IN post_order_loop_emit_early(Append(result, node.value), Pop(stack),
                                     node.right, Some(node))

RECURSIVE post_order_loop(_, _, _, _)
post_order_loop(result, stack, current, last_visited) ==
  IF current # Nil
  THEN post_order_loop(result, Append(stack, current), current.left, last_visited)
  ELSE IF stack = <<>> THEN result
  ELSE LET node == Last(stack)
           right_visited == node.right # Nil /\ last_visited # None
                            /\ ptr_eq(node.right, last_visited[1])
       IN IF node.right = Nil \/ right_visited
          THEN post_order_loop(Append(result, node.value), Pop(stack), current,
                               Some(node))
          ELSE post_order_loop(result, stack, node.right, last_visited)

post_order(root) == post_order_loop(<<>>, <<>>, root, None)

\* The level_order loop pushing the right child before the left one.
RECURSIVE level_order_loop_right_first(_, _)
level_order_loop_right_first(result, queue) ==
  IF queue = <<>> THEN result
  ELSE LET node == Head(queue)
       IN level_order_loop_right_first(
            Append(result, node.value),
            Tail(queue)
              \o (IF node.right # Nil THEN <<node.right>> ELSE <<>>)
              \o (IF node.left # Nil THEN <<node.left>> ELSE <<>>))

\* The level_order loop pushing the left children only.
RECURSIVE level_order_loop_left_only(_, _)
level_order_loop_left_only(result, queue) ==
  IF queue = <<>> THEN result
  ELSE LET node == Head(queue)
       IN level_order_loop_left_only(
            Append(result, node.value),
            Tail(queue)
              \o (IF node.left # Nil THEN <<node.left>> ELSE <<>>))

RECURSIVE level_order_loop(_, _)
level_order_loop(result, queue) ==
  IF queue = <<>> THEN result
  ELSE LET node == Head(queue)
       IN level_order_loop(
            Append(result, node.value),
            Tail(queue)
              \o (IF node.left # Nil THEN <<node.left>> ELSE <<>>)
              \o (IF node.right # Nil THEN <<node.right>> ELSE <<>>))

level_order(root) ==
  level_order_loop(<<>>, IF root # Nil THEN <<root>> ELSE <<>>)

number_of_elements(root) == Len(pre_order(root))

\* The ceil loop keeping its first candidate instead of the closest one.
RECURSIVE ceil_loop_first(_, _, _)
ceil_loop_first(result, cursor, value) ==
  IF cursor = Nil THEN result
  ELSE IF eq(cursor.value, value) THEN Some(cursor.value)
  ELSE IF lt(cursor.value, value) THEN ceil_loop_first(result, cursor.right, value)
  ELSE ceil_loop_first(IF result = None THEN Some(cursor.value) ELSE result,
                       cursor.left, value)

RECURSIVE ceil_loop(_, _, _)
ceil_loop(result, cursor, value) ==
  IF cursor = Nil THEN result
  ELSE IF eq(cursor.value, value) THEN Some(cursor.value)
  ELSE IF lt(cursor.value, value) THEN ceil_loop(result, cursor.right, value)
  ELSE ceil_loop(Some(cursor.value), cursor.left, value)

ceil(root, value) == IF root = Nil THEN None ELSE ceil_loop(None, root, value)

RECURSIVE floor_loop(_, _, _)
floor_loop(result, cursor, value) ==
  IF cursor = Nil THEN result
  ELSE IF eq(cursor.value, value) THEN Some(cursor.value)
  ELSE IF gt(cursor.value, value) THEN floor_loop(result, cursor.left, value)
  ELSE floor_loop(Some(cursor.value), cursor.right, value)

floor(root, value) == IF root = Nil THEN None ELSE floor_loop(None, root, value)

RB_remove(t, value) ==
  IF t.root = Nil THEN t
  ELSE LET r == remove_recursive(t.root, value)
           root == IF r = Nil THEN r ELSE [r EXCEPT !.color = "Black"]
       IN [root |-> root,
           min_value |-> refind_min(root),
           max_value |-> refind_max(root)]

(***************************************************************************)
(* Binary search tree: node.rs, bst_operations.rs                          *)
(***************************************************************************)

BinaryNode_new(value) == [value |-> value, left |-> Nil, right |-> Nil]

\* The cursor walk with an Equal key sent to the right like a Greater one.
RECURSIVE BST_insert_walk_dup(_, _)
BST_insert_walk_dup(cursor, value) ==
  IF cursor = Nil THEN BinaryNode_new(value)
  ELSE CASE partial_cmp(value, cursor.value) = "Less" ->
              [cursor EXCEPT !.left = BST_insert_walk_dup(@, value)]
         [] OTHER ->
              [cursor EXCEPT !.right = BST_insert_walk_dup(@, value)]

\* The cursor walk of BinarySearchTree::insert; the slot the walk stops at
\* receives the new node, an Equal (or incomparable) key returns early.
RECURSIVE BST_insert_walk(_, _)
BST_insert_walk(cursor, value) ==
  IF cursor = Nil THEN BinaryNode_new(value)
  ELSE CASE partial_cmp(value, cursor.value) = "Less" ->
              [cursor EXCEPT !.left = BST_insert_walk(@, value)]
         [] partial_cmp(value, cursor.value) = "Greater" ->
              [cursor EXCEPT !.right = BST_insert_walk(@, value)]
         [] OTHER -> cursor

BST_insert(t, value) ==
  LET c == cache_on_insert(t, value)
  IN IF c = Panic THEN [root |-> Panic, min_value |-> None, max_value |-> None]
     ELSE [root |-> BST_insert_walk(t.root, value),
           min_value |-> c.min_value,
           max_value |-> c.max_value]

\* The while loop of pass_and_detach_local_minimum: parent stops above the
\* leftmost node, whose right child takes its place.
RECURSIVE detach_leftmost(_)
detach_leftmost(parent) ==
  IF parent.left.left # Nil
  THEN [parent EXCEPT !.left = detach_leftmost(@)]
  ELSE [parent EXCEPT !.left = parent.left.right]

RECURSIVE leftmost_value(_)
leftmost_value(parent) ==
  IF parent.left.left # Nil THEN leftmost_value(parent.left)
  ELSE parent.left.value

\* pass_and_detach_local_minimum that drops the right subtree of the
\* detached node when that node is the root of the subtree.
pass_and_detach_drop_right(root) ==
  IF root = Nil THEN [ret |-> None, root |-> Nil]
  ELSE IF root.left = Nil THEN [ret |-> Some(root.value), root |-> Nil]
  ELSE [ret |-> Some(leftmost_value(root)), root |-> detach_leftmost(root)]

\* Returns the detached minimum (ret) and the subtree left behind (root).
pass_and_detach_local_minimum(root) ==
  IF root = Nil THEN [ret |-> None, root |-> Nil]
  ELSE IF root.left = Nil THEN [ret |-> Some(root.value), root |-> root.right]
  ELSE [ret |-> Some(leftmost_value(root)), root |-> detach_leftmost(root)]

\* The subtree left when the rightmost node of node is detached.
RECURSIVE detach_rightmost(_)
detach_rightmost(node) ==
  IF node.right # Nil THEN [node EXCEPT !.right = detach_rightmost(@)]
  ELSE node.left

\* The remove walk that fills a two-children node with its in-order
\* predecessor instead of its successor.
RECURSIVE BST_remove_walk_predecessor(_, _)
BST_remove_walk_predecessor(cursor, value) ==
  IF cursor = Nil THEN Nil
  ELSE CASE partial_cmp(value, cursor.value) = "Less" ->
              [cursor EXCEPT !.left = BST_remove_walk_predecessor(@, value)]
         [] partial_cmp(value, cursor.value) = "Greater" ->
              [cursor EXCEPT !.right = BST_remove_walk_predecessor(@, value)]
         [] partial_cmp(value, cursor.value) = "Equal" ->
              IF cursor.left = Nil /\ cursor.right = Nil THEN Nil
              ELSE IF cursor.right = Nil THEN cursor.left
              ELSE IF cursor.left = Nil THEN cursor.right
              ELSE [cursor EXCEPT !.value = refind_max(cursor.left)[1],
                                   !.left = detach_rightmost(cursor.left)]
         [] OTHER -> cursor

RECURSIVE BST_remove_walk(_, _)
BST_remove_walk(cursor, value) ==
  IF cursor = Nil THEN Nil
  ELSE CASE partial_cmp(value, cursor.value) = "Less" ->
              [cursor EXCEPT !.left = BST_remove_walk(@, value)]
         [] partial_cmp(value, cursor.value) = "Greater" ->
              [cursor EXCEPT !.right = BST_remove_walk(@, value)]
         [] partial_cmp(value, cursor.value) = "Equal" ->
              IF cursor.left = Nil /\ cursor.right = Nil THEN Nil
              ELSE IF cursor.right = Nil THEN cursor.left
              ELSE IF cursor.left = Nil THEN cursor.right
              ELSE LET d == pass_and_detach_local_minimum(cursor.right)
                   IN IF d.ret = None THEN Panic
                      ELSE [cursor EXCEPT !.value = d.ret[1], !.right = d.root]
         [] OTHER -> cursor

\* BinarySearchTree::remove that re-finds the minimum only and clears the
\* cached maximum.
BST_remove_half_cache(t, value) ==
  LET root == BST_remove_walk(t.root, value)
  IN [root |-> root,
      min_value |-> refind_min(root),
      max_value |-> None]

BST_remove(t, value) ==
  LET root == BST_remove_walk(t.root, value)
  IN [root |-> root,
      min_value |-> refind_min(root),
      max_value |-> refind_max(root)]

(***************************************************************************)
(* AVL tree: node.rs                                                       *)
(***************************************************************************)

AVLNode_new(value) ==
  [value |-> value, left |-> Nil, right |-> Nil, height |-> 1]

AVLNode_height(node) == IF node = Nil THEN 0 ELSE node.height

Max2(a, b) == IF a >= b THEN a ELSE b

\* update_height that leaves the stored height as it was.
update_height_stale(self) == self

update_height(self) ==
  [self EXCEPT
     !.height = 1 + Max2(AVLNode_height(self.left), AVLNode_height(self.right))]

balance_factor(self) == AVLNode_height(self.left) - AVLNode_height(self.right)

ll_rotation(self) ==
  IF self.left = Nil THEN Panic
  ELSE LET new_root == self.left
       IN update_height(
            [new_root EXCEPT
               !.right = update_height([self EXCEPT !.left = new_root.right])])

\* rr_rotation that leaves the demoted node's height as it was.
rr_rotation_stale(self) ==
  IF self.right = Nil THEN Panic
  ELSE LET new_root == self.right
       IN update_height(
            [new_root EXCEPT !.left = [self EXCEPT !.right = new_root.left]])

rr_rotation(self) ==
  IF self.right = Nil THEN Panic
  ELSE LET new_root == self.right
       IN update_height(
            [new_root EXCEPT
               !.left = update_height([self EXCEPT !.right = new_root.left])])

rl_rotation(self) ==
  IF self.right = Nil THEN Panic
  ELSE rr_rotation([self EXCEPT !.right = ll_rotation(@)])

lr_rotation(self) ==
  IF self.left = Nil THEN Panic
  ELSE ll_rotation([self EXCEPT !.left = rr_rotation(@)])

\* rebalance that already rotates at a balance factor of +-1.
rebalance_eager(self) ==
  IF balance_factor(self) > 0 THEN ll_rotation(self)
  ELSE IF balance_factor(self) < 0 THEN rr_rotation(self)
  ELSE self

\* rebalance with the threshold off by one: it rotates only beyond +-2.
rebalance_late(self) ==
  IF balance_factor(self) > 2
  THEN IF balance_factor(self.left) >= 0
       THEN ll_rotation(self) ELSE lr_rotation(self)
  ELSE IF balance_factor(self) < -2
  THEN IF balance_factor(self.right) <= 0
       THEN rr_rotation(self) ELSE rl_rotation(self)
  ELSE self

\* rebalance that always answers with a single rotation (no LR / RL case).
rebalance_single_only(self) ==
  IF balance_factor(self) > 1 THEN ll_rotation(self)
  ELSE IF balance_factor(self) < -1 THEN rr_rotation(self)
  ELSE self

rebalance(self) ==
  IF balance_factor(self) > 1
  THEN IF self.left = Nil THEN Panic
       ELSE IF balance_factor(self.left) >= 0
       THEN ll_rotation(self) ELSE lr_rotation(self)
  ELSE IF balance_factor(self) < -1
  THEN IF self.right = Nil THEN Panic
       ELSE IF balance_factor(self.right) <= 0
       THEN rr_rotation(self) ELSE rl_rotation(self)
  ELSE self

(***************************************************************************)
(* AVL tree: avl_operations.rs                                             *)
(***************************************************************************)

RECURSIVE insert_rec(_, _)
insert_rec(node, value) ==
  IF node = Nil THEN AVLNode_new(value)
  ELSE CASE partial_cmp(value, node.value) = "Less" ->
              rebalance(update_height([node EXCEPT !.left = insert_rec(@, value)]))
         [] partial_cmp(value, node.value) = "Greater" ->
              rebalance(update_height([node EXCEPT !.right = insert_rec(@, value)]))
         [] OTHER -> node

AVL_insert(t, value) ==
  LET root == insert_rec(t.root, value)
  IN [root |-> root,
      min_value |-> refind_min(root),
      max_value |-> refind_max(root)]

\* detach_min that reports the minimum but leaves its node in place.
detach_min_keep(node) == [min_val |-> refind_min(node)[1], node |-> node]

\* Returns the pair (min_val, new subtree) as a record.
RECURSIVE detach_min(_)
detach_min(node) ==
  IF node.left # Nil
  THEN LET d == detach_min(node.left)
       IN [min_val |-> d.min_val,
           node |-> rebalance(update_height([node EXCEPT !.left = d.node]))]
  ELSE [min_val |-> node.value, node |-> node.right]

RECURSIVE remove_node(_, _)
remove_node(node, value) ==
  IF node = Nil THEN Nil
  ELSE CASE partial_cmp(value, node.value) = "Less" ->
              rebalance(update_height([node EXCEPT !.left = remove_node(@, value)]))
         [] partial_cmp(value, node.value) = "Greater" ->
              rebalance(update_height([node EXCEPT !.right = remove_node(@, value)]))
         [] partial_cmp(value, node.value) = "Equal" ->
              IF node.left = Nil /\ node.right = Nil THEN Nil
              ELSE IF node.right = Nil THEN node.left
              ELSE IF node.left = Nil THEN node.right
              ELSE LET d == detach_min(node.right)
                   IN rebalance(update_height(
                        [node EXCEPT !.value = d.min_val, !.right = d.node]))
         [] OTHER -> node

\* AVLTree::remove that keeps the cached extremes it had before the call.
\* The nodes that insert_rec(node, value) hands to rebalance, each as it is
\* when rebalance is called on it (after update_height).
RECURSIVE rebalance_args_insert(_, _)
rebalance_args_insert(node, value) ==
  IF node = Nil THEN {}
  ELSE CASE partial_cmp(value, node.value) = "Less" ->
              {update_height([node EXCEPT !.left = insert_rec(@, value)])}
                \cup rebalance_args_insert(node.left, value)
         [] partial_cmp(value, node.value) = "Greater" ->
              {update_height([node EXCEPT !.right = insert_rec(@, value)])}
                \cup rebalance_args_insert(node.right, value)
         [] OTHER -> {}

\* The nodes that detach_min(node) hands to rebalance.
RECURSIVE rebalance_args_detach(_)
rebalance_args_detach(node) ==
  IF node.left # Nil
  THEN {update_height([node EXCEPT !.left = detach_min(node.left).node])}
         \cup rebalance_args_detach(node.left)
  ELSE {}

\* The nodes that remove_node(node, value) hands to rebalance, directly or
\* through detach_min.
RECURSIVE rebalance_args_remove(_, _)
rebalance_args_remove(node, value) ==
  IF node = Nil THEN {}
  ELSE CASE partial_cmp(value, node.value) = "Less" ->
              {update_height([node EXCEPT !.left = remove_node(@, value)])}
                \cup rebalance_args_remove(node.left, value)
         [] partial_cmp(value, node.value) = "Greater" ->
              {update_height([node EXCEPT !.right = remove_node(@, value)])}
                \cup rebalance_args_remove(node.right, value)
         [] partial_cmp(value, node.value) = "Equal" ->
              IF node.left = Nil \/ node.right = Nil THEN {}
              ELSE LET d == detach_min(node.right)
                   IN {update_height(
                         [node EXCEPT !.value = d.min_val, !.right = d.node])}
                        \cup rebalance_args_detach(node.right)
         [] OTHER -> {}

AVL_remove_stale(t, value) ==
  [root |-> remove_node(t.root, value),
   min_value |-> t.min_value,
   max_value |-> t.max_value]

AVL_remove(t, value) ==
  LET root == remove_node(t.root, value)
  IN [root |-> root,
      min_value |-> refind_min(root),
      max_value |-> refind_max(root)]

(***************************************************************************)
(* The three containers driven by one caller                               *)
(***************************************************************************)

\* BinarySearchTree::new, AVLTree::new, RedBlackTree::new.
new == [root |-> Nil, min_value |-> None, max_value |-> None]

SetMax(A) == CHOOSE x \in A : \A y \in A : y <= x

SetMin(A) == CHOOSE x \in A : \A y \in A : x <= y

Init ==
  /\ bst = new
  /\ avl = new
  /\ rb = new
  /\ S = {}
  /\ lastOp = "none"
  /\ lastKey = 0
  /\ lastHad = FALSE

\* insert(k) on each tree; S, lastOp, lastKey and lastHad record the call.
DoInsert(k, tag) ==
  /\ bst' = BST_insert(bst, k)
  /\ avl' = AVL_insert(avl, k)
  /\ rb' = RB_insert(rb, k)
  /\ S' = S \cup {k}
  /\ lastOp' = tag
  /\ lastKey' = k
  /\ lastHad' = (k \in S)

\* remove(&k) on each tree.
DoRemove(k, tag) ==
  /\ bst' = BST_remove(bst, k)
  /\ avl' = AVL_remove(avl, k)
  /\ rb' = RB_remove(rb, k)
  /\ S' = S \ {k}
  /\ lastOp' = tag
  /\ lastKey' = k
  /\ lastHad' = (k \in S)

\* Any insert over the small key domain.
Insert(k) ==
  /\ S \subseteq Keys
  /\ DoInsert(k, "insert")

\* Any remove over the small key domain.
Remove(k) ==
  /\ S \subseteq Keys
  /\ DoRemove(k, "remove")

\* A strictly ascending or strictly descending run of consecutive keys
\* into an empty tree (for i in a..=b / (a..=b).rev()).
SeqInsert(k) ==
  /\ \/ S = {}
     \/ /\ lastOp = "seq"
        /\ \/ Cardinality(S) = 1 /\ (k = lastKey + 1 \/ k = lastKey - 1)
           \/ Cardinality(S) > 1 /\ lastKey = SetMax(S) /\ k = lastKey + 1
           \/ Cardinality(S) > 1 /\ lastKey = SetMin(S) /\ k = lastKey - 1
  /\ DoInsert(k, "seq")

\* One remove of any key, stored or not, after such a run.
SeqRemove(k) ==
  /\ lastOp = "seq"
  /\ DoRemove(k, "seq_remove")

Next ==
  \/ \E k \in Keys : Insert(k)
  \/ \E k \in Keys : Remove(k)
  \/ \E k \in SeqKeys : SeqInsert(k)
  \/ \E k \in SeqKeys : SeqRemove(k)

Spec == Init /\ [][Next]_vars

\* The keys of a partially ordered key type.
PartialKeys == (1..MaxPartial) \cup {NaN}

\* Any insert of a key of the partially ordered type.
PartialInsert(k) == DoInsert(k, "insert")

\* Any remove of a key of the partially ordered type.
PartialRemove(k) == DoRemove(k, "remove")

NextPartial ==
  \/ \E k \in PartialKeys : PartialInsert(k)
  \/ \E k \in PartialKeys : PartialRemove(k)

\* Every sequence of inserts and removes over a partially ordered key type.
SpecPartial == Init /\ [][NextPartial]_vars

\* TRUE iff some rebalance call of insert_rec(node, value) meets a balance
\* factor outside {-1, 0, 1}, that is, iff the insert rotates.
RECURSIVE insert_rotates(_, _)
insert_rotates(node, value) ==
  IF node = Nil THEN FALSE
  ELSE CASE partial_cmp(value, node.value) = "Less" ->
              \/ insert_rotates(node.left, value)
              \/ LET bf == balance_factor(
                             update_height([node EXCEPT !.left = insert_rec(@, value)]))
                 IN bf > 1 \/ bf < -1
         [] partial_cmp(value, node.value) = "Greater" ->
              \/ insert_rotates(node.right, value)
              \/ LET bf == balance_factor(
                             update_height([node EXCEPT !.right = insert_rec(@, value)]))
                 IN bf > 1 \/ bf < -1
         [] OTHER -> FALSE

\* insert(k) on the BinarySearchTree and on the AVLTree, taken only when it
\* makes the AVL tree rotate nowhere.
NoRotInsert(k) ==
  /\ ~insert_rotates(avl.root, k)
  /\ bst' = BST_insert(bst, k)
  /\ avl' = AVL_insert(avl, k)
  /\ S' = S \cup {k}
  /\ lastOp' = "shape"
  /\ lastKey' = k
  /\ lastHad' = (k \in S)
  /\ UNCHANGED rb

NextNoRot == \E k \in ShapeKeys : NoRotInsert(k)

\* Every sequence of inserts into empty trees during which no AVL balance
\* factor leaves {-1, 0, 1}.
SpecNoRot == Init /\ [][NextNoRot]_vars

(***************************************************************************)
(* Properties                                                              *)
(***************************************************************************)

\* The keys of a finite set of integers, each once, in increasing order.
RECURSIVE SortedSeq(_)
SortedSeq(A) ==
  IF A = {} THEN <<>> ELSE <<SetMin(A)>> \o SortedSeq(A \ {SetMin(A)})

\* No Red node of the subtree has a Red child.
RECURSIVE NoRedRed(_)
NoRedRed(n) ==
  \/ n = Nil
  \/ /\ is_red(n) => (~is_red_node(n.left) /\ ~is_red_node(n.right))
     /\ NoRedRed(n.left)
     /\ NoRedRed(n.right)

\* The numbers of Black nodes met on the paths from n to its empty slots.
RECURSIVE BlackCounts(_)
BlackCounts(n) ==
  IF n = Nil THEN {0}
  ELSE {c + (IF is_black(n) THEN 1 ELSE 0) :
          c \in BlackCounts(n.left) \cup BlackCounts(n.right)}

\* The number of nodes on the longest path from n down to a leaf.
RECURSIVE ActualHeight(_)
ActualHeight(n) ==
  IF n = Nil THEN 0
  ELSE 1 + Max2(ActualHeight(n.left), ActualHeight(n.right))

\* Every node's two subtrees differ in actual height by at most 1.
RECURSIVE HeightBalanced(_)
HeightBalanced(n) ==
  \/ n = Nil
  \/ /\ ActualHeight(n.left) - ActualHeight(n.right) \in {-1, 0, 1}
     /\ HeightBalanced(n.left)
     /\ HeightBalanced(n.right)

\* C1: RedBlackTree, after every insert and remove: the root is Black, no
\* Red node has a Red child, and every path from the root to an empty slot
\* passes through the same number of Black nodes.
C1_RedBlackInvariants ==
  /\ rb.root # Nil => is_black(rb.root)
  /\ NoRedRed(rb.root)
  /\ Cardinality(BlackCounts(rb.root)) = 1

\* A stored key has just been removed and at least four keys remain.
C1_Witness ==
  /\ lastOp = "remove"
  /\ lastHad
  /\ Cardinality(S) >= 4

\* C2: AVLTree, after every insert and remove: at every node the actual
\* heights of the left and the right subtree differ by at most 1.
C2_AvlBalanced == HeightBalanced(avl.root)

\* A remove from a tree of several keys has happened.
C2_Witness ==
  /\ lastOp = "remove"
  /\ lastHad
  /\ Cardinality(S) >= 4
  /\ ActualHeight(avl.root) = 3

\* C3: RedBlackTree refines the set S: in_order() is the keys of S, each
\* once, in strictly increasing order.
C3_RbRefinesSet == in_order(rb.root) = SortedSeq(S)

\* A stored key with two children was removed (successor replacement).
C3_Witness ==
  /\ lastOp \in {"remove", "seq_remove"}
  /\ lastHad
  /\ Cardinality(S) >= 4
  /\ lastKey > SetMin(S)
  /\ lastKey < SetMax(S)

\* C4: AVLTree refines the set S: in_order() is the keys of S, each once,
\* in strictly increasing order.
C4_AvlRefinesSet == in_order(avl.root) = SortedSeq(S)

\* A stored inner key was removed from an AVL tree of several keys.
C4_Witness ==
  /\ lastOp = "remove"
  /\ lastHad
  /\ Cardinality(S) >= 4
  /\ lastKey > SetMin(S)
  /\ lastKey < SetMax(S)
  /\ avl.root.left # Nil
  /\ avl.root.right # Nil

\* C5: BinarySearchTree refines the set S: in_order() is the keys of S,
\* each once, in strictly increasing order.
C5_BstRefinesSet == in_order(bst.root) = SortedSeq(S)

\* A stored inner key was removed from a BST whose root has two children.
C5_Witness ==
  /\ lastOp = "remove"
  /\ lastHad
  /\ Cardinality(S) >= 3
  /\ lastKey > SetMin(S)
  /\ lastKey < SetMax(S)
  /\ bst.root.left # Nil
  /\ bst.root.right # Nil

\* The keys queried: every key that can be stored, one below, one above.
QueryKeys == 0..(MaxSeq + 1)

Trees == <<bst, avl, rb>>

\* The least key of A that is >= q, the greatest that is <= q, as Options.
LeastAtLeast(A, q) ==
  IF \E x \in A : x >= q THEN Some(SetMin({x \in A : x >= q})) ELSE None

GreatestAtMost(A, q) ==
  IF \E x \in A : x <= q THEN Some(SetMax({x \in A : x <= q})) ELSE None

\* What a caller can observe of the shape and the extremes of tree t.
Observed(t) ==
  <<pre_order(t.root), in_order(t.root), post_order(t.root),
    level_order(t.root), number_of_elements(t.root), t.min_value, t.max_value>>

\* C6: in each tree contains(k) is true exactly for the keys inserted and
\* not removed since; it is true right after insert(k) and false right
\* after remove(k).
C6_Membership ==
  \A i \in 1..3 :
    /\ \A k \in QueryKeys : contains(Trees[i].root, k) <=> k \in S
    /\ lastOp \in {"insert", "seq"} => contains(Trees[i].root, lastKey)
    /\ lastOp \in {"remove", "seq_remove"} => ~contains(Trees[i].root, lastKey)

\* A stored key was removed and other keys remain on both sides of it.
C6_Witness ==
  /\ lastOp = "remove"
  /\ lastHad
  /\ \E a, b \in S : a < lastKey /\ lastKey < b

\* C7: in each tree min() is the smallest and max() the largest stored
\* key, and each is None exactly when the tree is empty.
C7_MinMax ==
  \A i \in 1..3 :
    /\ Trees[i].min_value = IF S = {} THEN None ELSE Some(SetMin(S))
    /\ Trees[i].max_value = IF S = {} THEN None ELSE Some(SetMax(S))
    /\ Trees[i].min_value = None <=> Trees[i].root = Nil
    /\ Trees[i].max_value = None <=> Trees[i].root = Nil

\* The minimum was removed, then a new maximum was inserted.
C7_Witness ==
  /\ lastOp = "insert"
  /\ ~lastHad
  /\ Cardinality(S) >= 3
  /\ lastKey = SetMax(S)
  /\ SetMin(S) > 1

\* C8: insert(k) of a stored key leaves pre_order, in_order, post_order,
\* level_order, number_of_elements, min and max of each tree unchanged.
C8_DuplicateInsert ==
  [][(lastOp' = "insert" /\ lastHad') =>
       LET bst_after == bst'
           avl_after == avl'
           rb_after == rb'
       IN /\ Observed(bst_after) = Observed(bst)
          /\ Observed(avl_after) = Observed(avl)
          /\ Observed(rb_after) = Observed(rb)]_vars

\* A stored key below the root was inserted again.
C8_Witness ==
  /\ lastOp = "insert"
  /\ lastHad
  /\ Cardinality(S) >= 4
  /\ lastKey # rb.root.value
  /\ lastKey # avl.root.value
  /\ lastKey # bst.root.value

\* C9: in each tree, for every query q, ceil(q) is the least stored key
\* >= q and floor(q) the greatest stored key <= q, None when there is none.
C9_CeilFloor ==
  \A i \in 1..3 : \A q \in QueryKeys :
    /\ ceil(Trees[i].root, q) = LeastAtLeast(S, q)
    /\ floor(Trees[i].root, q) = GreatestAtMost(S, q)

\* Some query lies strictly between two stored keys, after a remove.
C9_Witness ==
  /\ lastOp = "remove"
  /\ lastHad
  /\ Cardinality(S) >= 3
  /\ \E q \in QueryKeys :
       /\ q \notin S
       /\ ceil(rb.root, q) # None
       /\ floor(rb.root, q) # None
       /\ ceil(rb.root, q)[1] > floor(rb.root, q)[1] + 1

\* C10: RedBlackTree holding n >= 1 keys: 2^height() <= (n+1)^2, and after
\* inserting 1..=20 in ascending or descending order height() <= 10.
C10_RbHeight ==
  LET n == number_of_elements(rb.root)
  IN /\ n >= 1 => 2 ^ height(rb.root) <= (n + 1) * (n + 1)
     /\ (lastOp = "seq" /\ S = 1..TestRunLen) => height(rb.root) <= TestRunHeight

\* The run 1..=20 has been inserted, ascending.
C10_Witness ==
  /\ lastOp = "seq"
  /\ S = 1..TestRunLen
  /\ lastKey = TestRunLen
  /\ number_of_elements(rb.root) = TestRunLen

\* The least number of keys of an AVL tree of k levels.
RECURSIVE MinNodes(_)
MinNodes(k) ==
  IF k = 0 THEN 0
  ELSE IF k = 1 THEN 1
  ELSE MinNodes(k - 1) + MinNodes(k - 2) + 1

\* floor(1.45 * log2(n + 2)) for n = 1..32.
AvlLogBound ==
  <<2, 2, 3, 3, 4, 4, 4, 4, 5, 5, 5, 5, 5, 5, 5, 6,
    6, 6, 6, 6, 6, 6, 6, 6, 6, 6, 7, 7, 7, 7, 7, 7>>

\* C11: AVLTree holding n >= 1 keys: height() <= 1.45*log2(n+2), and a tree
\* of height() = h holds at least N(h+1) keys, N(0)=0, N(1)=1,
\* N(k)=N(k-1)+N(k-2)+1.
C11_AvlHeight ==
  LET n == number_of_elements(avl.root)
  IN n >= 1 =>
       /\ height(avl.root) <= AvlLogBound[n]
       /\ n >= MinNodes(height(avl.root) + 1)

\* A remove left the AVL tree with exactly the least number of keys its
\* height allows, and the tree has four levels.
C11_Witness ==
  /\ lastOp = "seq_remove"
  /\ lastHad
  /\ height(avl.root) = 3
  /\ number_of_elements(avl.root) = MinNodes(4)

\* C12: height() is 0 for the empty tree, and for the BinarySearchTree
\* built from n >= 1 distinct keys in strictly ascending or strictly
\* descending order height() = n - 1.
C12_BstDegenerateHeight ==
  /\ bst.root = Nil => height(bst.root) = 0
  /\ lastOp = "seq" => height(bst.root) = Cardinality(S) - 1

\* Eleven keys were inserted in descending order (as for (0..=10).rev()).
C12_Witness ==
  /\ lastOp = "seq"
  /\ Cardinality(S) = 11
  /\ lastKey = SetMin(S)
  /\ bst.root.value = SetMax(S)

\* C13 as stated: inserting 1..=20 in ascending order into the
\* BinarySearchTree yields height() = 20, the count of levels.
C13_AsStated ==
  (lastOp = "seq" /\ S = 1..TestRunLen /\ lastKey = TestRunLen)
    => height(bst.root) = TestRunLen

\* C13 amended: height() is the count of levels minus one (0 for the empty
\* tree); inserting 1..=20 in ascending order into the BinarySearchTree
\* yields height() = 19.
C13_HeightIsLevelsMinusOne ==
  /\ \A i \in 1..3 :
       height(Trees[i].root) =
         IF Trees[i].root = Nil THEN 0 ELSE ActualHeight(Trees[i].root) - 1
  /\ (lastOp = "seq" /\ S = 1..TestRunLen /\ lastKey = TestRunLen)
       => height(bst.root) = TestRunLen - 1

\* The run 1..=20 has been inserted, ascending, into the BinarySearchTree.
C13_Witness ==
  /\ lastOp = "seq"
  /\ S = 1..TestRunLen
  /\ lastKey = TestRunLen
  /\ bst.root.value = 1

\* C14: for each of the three trees, after any sequence of inserts (repeated
\* keys included) and removes, number_of_elements() equals the number of
\* distinct keys stored, and pre_order(), post_order() and level_order() each
\* have exactly that length; it is 0 for the empty tree.
C14_Counts ==
  \A i \in 1..3 :
    LET root == Trees[i].root
    IN /\ number_of_elements(root) = Cardinality(S)
       /\ Len(pre_order(root)) = Cardinality(S)
       /\ Len(post_order(root)) = Cardinality(S)
       /\ Len(level_order(root)) = Cardinality(S)
       /\ root = Nil => number_of_elements(root) = 0

\* A repeated key was inserted while some key between the stored extremes is
\* absent; three distinct keys are stored.
C14_Witness ==
  /\ lastOp = "insert"
  /\ lastHad
  /\ Cardinality(S) = 3
  /\ \E k \in Keys : k \notin S /\ k < SetMax(S) /\ k > SetMin(S)
  /\ number_of_elements(rb.root) = 3

\* C15: BinarySearchTree and AVLTree: remove(k) of a key that is not stored,
\* the empty tree included, changes none of pre_order(), in_order(),
\* post_order(), level_order(), min() and max(); min() and max() stay None on
\* the empty tree.
C15_RemoveAbsent ==
  [][(lastOp' \in {"remove", "seq_remove"} /\ ~lastHad') =>
       LET bst_after == bst'
           avl_after == avl'
       IN /\ Observed(bst_after) = Observed(bst)
          /\ Observed(avl_after) = Observed(avl)
          /\ bst.root = Nil =>
               bst_after.min_value = None /\ bst_after.max_value = None
          /\ avl.root = Nil =>
               avl_after.min_value = None /\ avl_after.max_value = None]_vars

\* An absent key lying strictly between the stored extremes was just removed
\* from trees of three keys whose root has two children.
C15_Witness ==
  /\ lastOp = "remove"
  /\ ~lastHad
  /\ Cardinality(S) = 3
  /\ lastKey > SetMin(S)
  /\ lastKey < SetMax(S)
  /\ bst.root.left # Nil
  /\ bst.root.right # Nil

\* C16 as stated: after inserting 5, 3, 7, 2, 4, 6, 8 into an empty
\* BinarySearchTree and an empty AVLTree, the AVL tree's pre_order() differs
\* from the BST's pre_order() [5,3,2,4,7,6,8], while both in_order() results
\* are [2,3,4,5,6,7,8].
C16_AsStated ==
  (lastOp = "shape" /\ pre_order(bst.root) = <<5, 3, 2, 4, 7, 6, 8>>) =>
    /\ pre_order(avl.root) # pre_order(bst.root)
    /\ in_order(bst.root) = <<2, 3, 4, 5, 6, 7, 8>>
    /\ in_order(avl.root) = <<2, 3, 4, 5, 6, 7, 8>>

\* C16 amended: after inserting 5, 3, 7, 2, 4, 6, 8 into an empty
\* BinarySearchTree and an empty AVLTree no rotation has occurred; the AVL
\* tree's pre_order() equals the BST's pre_order() [5,3,2,4,7,6,8], and both
\* in_order() results are [2,3,4,5,6,7,8].
C16_SamePreOrder ==
  (lastOp = "shape" /\ S = 2..8 /\ bst.root.value = 5
     /\ bst.root.left.value = 3 /\ bst.root.right.value = 7) =>
    /\ pre_order(bst.root) = <<5, 3, 2, 4, 7, 6, 8>>
    /\ pre_order(avl.root) = <<5, 3, 2, 4, 7, 6, 8>>
    /\ in_order(bst.root) = <<2, 3, 4, 5, 6, 7, 8>>
    /\ in_order(avl.root) = <<2, 3, 4, 5, 6, 7, 8>>

\* The seven keys are stored, 8 last, with 5 at the root over 3 and 7.
C16_Witness ==
  /\ lastOp = "shape"
  /\ lastKey = 8
  /\ ~lastHad
  /\ S = 2..8
  /\ bst.root.value = 5
  /\ bst.root.left.value = 3
  /\ bst.root.right.value = 7

\* C17: for any sequence of inserts into an empty tree during which no
\* node's balance factor leaves {-1, 0, 1}, the AVLTree has exactly the shape
\* of the BinarySearchTree fed the same inserts: pre_order(), post_order(),
\* level_order() and height() coincide.
C17_AvlShapeIsBstShape ==
  /\ pre_order(avl.root) = pre_order(bst.root)
  /\ post_order(avl.root) = post_order(bst.root)
  /\ level_order(avl.root) = level_order(bst.root)
  /\ height(avl.root) = height(bst.root)

\* The list [8,4,12,2,6,10,1,7] has been inserted (level by level, 7 last).
C17_Witness ==
  /\ lastOp = "shape"
  /\ lastKey = 7
  /\ ~lastHad
  /\ level_order(avl.root) = <<8, 4, 12, 2, 6, 10, 1, 7>>
  /\ height(avl.root) = 3

\* TRUE iff the sequence seq holds the key v.
Holds(seq, v) == \E j \in 1..Len(seq) : seq[j] = v

\* C18 as stated: for a partially ordered key type, in every state of each
\* of the three trees (the empty one included), insert(v) and remove(v) of an
\* incomparable v leave the stored keys, min() and max() unchanged, and
\* contains(v) is false afterwards.
C18_AsStated ==
  [][(lastKey' = NaN /\ lastOp' \in {"insert", "remove"}) =>
       LET bst_after == bst'
           avl_after == avl'
           rb_after == rb'
           same(t, u) == /\ in_order(u.root) = in_order(t.root)
                         /\ u.min_value = t.min_value
                         /\ u.max_value = t.max_value
                         /\ ~contains(u.root, NaN)
       IN /\ same(bst, bst_after)
          /\ same(avl, avl_after)
          /\ same(rb, rb_after)]_vars

\* C19 as stated: for a partially ordered key type and each of the three
\* trees, ceil(q) and floor(q) of an incomparable q return None whatever
\* keys the tree holds (taken here over the trees that hold comparable keys
\* only).
C19_AsStated ==
  \A i \in 1..3 :
    ~Holds(in_order(Trees[i].root), NaN) =>
      /\ ceil(Trees[i].root, NaN) = None
      /\ floor(Trees[i].root, NaN) = None

\* TRUE iff every node below (and at) node stores 1 + the larger stored
\* height of its children, which is also the actual height of its subtree.
RECURSIVE StoredHeightsExact(_)
StoredHeightsExact(node) ==
  \/ node = Nil
  \/ /\ node.height =
          1 + Max2(AVLNode_height(node.left), AVLNode_height(node.right))
     /\ node.height = ActualHeight(node)
     /\ StoredHeightsExact(node.left)
     /\ StoredHeightsExact(node.right)

\* C20: AVLTree: after every insert and remove, every node's stored height
\* equals 1 + max(stored heights of its children) (0 for an empty child),
\* hence the actual height of its subtree (leaf = 1), and for a non-empty
\* tree height() equals the root's stored height minus 1.
C20_AvlStoredHeights ==
  /\ StoredHeightsExact(avl.root)
  /\ avl.root # Nil => height(avl.root) = avl.root.height - 1

\* A stored key was just removed from an AVL tree that keeps three levels
\* and a root with two children.
C20_Witness ==
  /\ lastOp \in {"remove", "seq_remove"}
  /\ lastHad
  /\ avl.root # Nil
  /\ avl.root.height = 3
  /\ avl.root.left # Nil
  /\ avl.root.right # Nil

\* What a caller can observe of tree t without looking at its shape.
Contract(t) ==
  <<in_order(t.root), number_of_elements(t.root), t.min_value, t.max_value,
    [k \in QueryKeys |->
       <<contains(t.root, k), ceil(t.root, k), floor(t.root, k)>>]>>

\* C21: for any sequence of insert/remove operations applied in lockstep to
\* a BinarySearchTree, an AVLTree and a RedBlackTree, after every step the
\* three agree on in_order(), number_of_elements(), min(), max(), and on
\* contains(k), ceil(k) and floor(k) for every key k.
C21_EnginesAgree ==
  /\ Contract(avl) = Contract(bst)
  /\ Contract(rb) = Contract(bst)

\* The smallest stored key was just removed, and the three trees have three
\* different shapes.
C21_Witness ==
  /\ lastOp = "remove"
  /\ lastHad
  /\ S # {}
  /\ lastKey < SetMin(S)
  /\ pre_order(avl.root) # pre_order(bst.root)
  /\ pre_order(rb.root) # pre_order(bst.root)
  /\ pre_order(rb.root) # pre_order(avl.root)

\* TRUE iff no node below (and at) n has a Red right child.
RECURSIVE NoRedRight(_)
NoRedRight(n) ==
  \/ n = Nil
  \/ /\ ~is_red_node(n.right)
     /\ NoRedRight(n.left)
     /\ NoRedRight(n.right)

\* C22: the RedBlackTree is left-leaning after every public operation: after
\* every insert and every remove no node has a Red right child (hence no
\* node has two Red children).
C22_LeftLeaning == NoRedRight(rb.root)

\* A stored key was just removed and the tree is left with a Red left link
\* at its root.
C22_Witness ==
  /\ lastOp \in {"remove", "seq_remove"}
  /\ lastHad
  /\ rb.root # Nil
  /\ is_red_node(rb.root.left)
  /\ rb.root.right # Nil

\* C23 as stated: RedBlackTree::remove of a stored key, from any reachable
\* tree (the single-node tree included): the node that is physically
\* detached is Red and has no children at that moment.
C23_AsStated ==
  [][(lastOp' \in {"remove", "seq_remove"} /\ lastHad') =>
       LET d == detached_by_remove(rb.root, lastKey')
       IN /\ d # Nil
          /\ is_red(d)
          /\ d.left = Nil
          /\ d.right = Nil]_vars

\* C23 amended: RedBlackTree::remove of a stored key detaches exactly one
\* node, which has no children at that moment; it is Red when the tree holds
\* more than one key, and it is the Black root when the tree holds a single
\* key.
C23_DetachedNode ==
  [][(lastOp' \in {"remove", "seq_remove"} /\ lastHad') =>
       LET d == detached_by_remove(rb.root, lastKey')
       IN /\ d # Nil
          /\ d.left = Nil
          /\ d.right = Nil
          /\ Cardinality(S) > 1 => is_red(d)
          /\ Cardinality(S) = 1 => d = rb.root /\ is_black(d)]_vars

\* A key with two children was just removed, so the detached node was the
\* successor reached by remove_min, and keys remain on both sides.
C23_Witness ==
  /\ lastOp = "remove"
  /\ lastHad
  /\ Cardinality(S) >= 3
  /\ lastKey > SetMin(S)
  /\ lastKey < SetMax(S)
  /\ rb.root.value > lastKey

\* C24 as stated: fix_up rotates left only if the right child is Red and the
\* left child is not Red, so fix_up(node) and balance(node) return the same
\* subtree for every node on which fix_up is invoked during a remove.
C24_AsStated ==
  [][(lastOp' \in {"remove", "seq_remove"}) =>
       \A node \in fix_up_args(rb.root, lastKey') :
         /\ fix_up_rotates_left(node) => ~is_red_node(node.left)
         /\ fix_up(node) = balance(node)]_vars

\* C24 amended: fix_up rotates left whenever the right child is Red, also
\* when the left child is Red; on such a node its second case rotates right
\* again and restores the node, so fix_up(node) and balance(node) still
\* return the same subtree for every node on which fix_up is invoked during
\* a remove.
C24_FixUpMatchesBalance ==
  [][(lastOp' \in {"remove", "seq_remove"}) =>
       \A node \in fix_up_args(rb.root, lastKey') :
         /\ fix_up(node) = balance(node)
         /\ (fix_up_rotates_left(node) /\ is_red_node(node.left)) =>
              /\ is_red_node(rotate_left(node).left.left)
              /\ rotate_right(rotate_left(node)) = node]_vars

\* After a remove, the tree is one on which some remove(k) hands fix_up a
\* node with two Red children.
C24_Witness ==
  /\ lastOp = "remove"
  /\ \E k \in Keys : \E node \in fix_up_args(rb.root, k) :
       /\ fix_up_rotates_left(node)
       /\ is_red_node(node.left)

\* The node of the tree below root that stores key k (Nil when none does).
RECURSIVE NodeOf(_, _)
NodeOf(root, k) ==
  IF root = Nil THEN Nil
  ELSE IF k < root.value THEN NodeOf(root.left, k)
  ELSE IF k > root.value THEN NodeOf(root.right, k)
  ELSE root

\* The sequence seq with every occurrence of v deleted.
Without(seq, v) == SelectSeq(seq, LAMBDA x : x # v)

\* The sequence seq with every occurrence of a replaced by b.
Replaced(seq, a, b) ==
  [i \in 1..Len(seq) |-> IF seq[i] = a THEN b ELSE seq[i]]

\* The smallest key below (and at) node.
RECURSIVE Leftmost(_)
Leftmost(node) == IF node.left = Nil THEN node.value ELSE Leftmost(node.left)

\* C25: BinarySearchTree::remove(k) of a stored key changes only the removed
\* position: if k's node has at most one child the new pre_order() is the old
\* one with k deleted; if it has two children the new pre_order() is the old
\* one with k replaced by its in-order successor s and the old occurrence of
\* s deleted.  With in_order() being the sorted keys, this fixes the shape.
C25_BstRemoveFrame ==
  [][(lastOp' \in {"remove", "seq_remove"} /\ lastHad') =>
       LET k == lastKey'
           bst_after == bst'
           old == pre_order(bst.root)
           node == NodeOf(bst.root, k)
       IN /\ node # Nil
          /\ in_order(bst_after.root) = Without(in_order(bst.root), k)
          /\ IF node.left = Nil \/ node.right = Nil
             THEN pre_order(bst_after.root) = Without(old, k)
             ELSE LET s == Leftmost(node.right)
                  IN pre_order(bst_after.root) =
                       Replaced(Without(old, s), k, s)]_vars

\* A stored key was just removed; the root now holds the next larger key
\* over a left subtree of smaller keys and a right subtree, as after the
\* removal of a root with two children.
C25_Witness ==
  /\ lastOp = "remove"
  /\ lastHad
  /\ bst.root # Nil
  /\ bst.root.left # Nil
  /\ bst.root.right # Nil
  /\ refind_max(bst.root.left)[1] < lastKey
  /\ lastKey < bst.root.value

\* Classical post-order: left subtree, right subtree, node.
RECURSIVE PostOrderRec(_)
PostOrderRec(n) ==
  IF n = Nil THEN <<>>
  ELSE PostOrderRec(n.left) \o PostOrderRec(n.right) \o <<n.value>>

\* Classical pre-order: node, left subtree, right subtree.
RECURSIVE PreOrderRec(_)
PreOrderRec(n) ==
  IF n = Nil THEN <<>>
  ELSE <<n.value>> \o PreOrderRec(n.left) \o PreOrderRec(n.right)

\* Classical in-order: left subtree, node, right subtree.
RECURSIVE InOrderRec(_)
InOrderRec(n) ==
  IF n = Nil THEN <<>>
  ELSE InOrderRec(n.left) \o <<n.value>> \o InOrderRec(n.right)

\* The keys at depth d below n, from left to right.
RECURSIVE AtDepth(_, _)
AtDepth(n, d) ==
  IF n = Nil THEN <<>>
  ELSE IF d = 0 THEN <<n.value>>
  ELSE AtDepth(n.left, d - 1) \o AtDepth(n.right, d - 1)

\* The keys of depths d, d + 1, ... below n, depth by depth.
RECURSIVE FromDepth(_, _)
FromDepth(n, d) ==
  IF AtDepth(n, d) = <<>> THEN <<>>
  ELSE AtDepth(n, d) \o FromDepth(n, d + 1)

\* TRUE iff seq holds every stored key exactly once.
EachKeyOnce(seq) ==
  /\ Len(seq) = Cardinality(S)
  /\ {seq[j] : j \in 1..Len(seq)} = S

\* C26: post_order(), the iterative stack walk with a last-visited marker,
\* terminates on every tree and returns every stored key exactly once in
\* classical post-order, left-only and right-only chains included.
C26_PostOrder ==
  \A i \in 1..3 :
    /\ post_order(Trees[i].root) = PostOrderRec(Trees[i].root)
    /\ EachKeyOnce(post_order(Trees[i].root))

\* A BST in which some node is emitted only after its right subtree: the
\* root has a right child that itself has two children.
C26_Witness ==
  /\ bst.root # Nil
  /\ bst.root.left # Nil
  /\ bst.root.right # Nil
  /\ bst.root.right.left # Nil
  /\ bst.root.right.right # Nil
  /\ Len(post_order(bst.root)) = 5

\* C27: for every tree shape, the iterative pre_order(), in_order() and
\* level_order() terminate and return every stored key exactly once in the
\* classical order; all four traversals return the empty sequence on the
\* empty tree.
C27_Traversals ==
  \A i \in 1..3 :
    LET root == Trees[i].root
    IN /\ pre_order(root) = PreOrderRec(root)
       /\ in_order(root) = InOrderRec(root)
       /\ level_order(root) = FromDepth(root, 0)
       /\ EachKeyOnce(pre_order(root))
       /\ EachKeyOnce(in_order(root))
       /\ EachKeyOnce(level_order(root))
       /\ root = Nil =>
            /\ pre_order(root) = <<>>
            /\ in_order(root) = <<>>
            /\ post_order(root) = <<>>
            /\ level_order(root) = <<>>

\* A BST whose level order differs from its pre-order: the left child of
\* the root has a child and the root has a right child.
C27_Witness ==
  /\ bst.root # Nil
  /\ bst.root.left # Nil
  /\ bst.root.right # Nil
  /\ bst.root.left.right # Nil
  /\ level_order(bst.root) # pre_order(bst.root)
  /\ Len(level_order(bst.root)) = 5

\* C28: RedBlackTree::remove(k) with k not stored in a non-empty tree leaves
\* in_order(), number_of_elements(), min() and max() unchanged, although the
\* restructuring steps along the search path are still performed.
C28_RbRemoveAbsent ==
  [][(lastOp' \in {"remove", "seq_remove"} /\ ~lastHad' /\ rb.root # Nil) =>
       LET rb_after == rb'
       IN /\ in_order(rb_after.root) = in_order(rb.root)
          /\ number_of_elements(rb_after.root) = number_of_elements(rb.root)
          /\ rb_after.min_value = rb.min_value
          /\ rb_after.max_value = rb.max_value]_vars

\* A key above the maximum was just removed from a tree of four keys, which
\* now has the shape that move_red_right leaves on the way down: the second
\* key at the root, and a Red left child under the root's right child.
C28_Witness ==
  /\ lastOp = "remove"
  /\ ~lastHad
  /\ Cardinality(S) = 4
  /\ lastKey > SetMax(S)
  /\ rb.root.value = SortedSeq(S)[2]
  /\ rb.root.right # Nil
  /\ is_red_node(rb.root.right.left)

\* TRUE iff neither n nor any node below it is the outcome of a panic.
RECURSIVE NoPanicIn(_)
NoPanicIn(n) ==
  /\ n # Panic
  /\ n = Nil \/ (NoPanicIn(n.left) /\ NoPanicIn(n.right))

\* C29: for totally ordered keys no sequence of public operations on any of
\* the three trees reaches a panic: (min_value, max_value) are always both
\* None or both Some, and no unwrap()/expect()/unreachable!() fails, so no
\* tree ever holds the outcome of a panic.
C29_NoPanic ==
  \A i \in 1..3 :
    /\ (Trees[i].min_value = None) <=> (Trees[i].max_value = None)
    /\ NoPanicIn(Trees[i].root)

\* A key strictly between the extremes was just removed from trees of five
\* keys, and every tree still caches both extremes.
C29_Witness ==
  /\ lastOp = "remove"
  /\ lastHad
  /\ Cardinality(S) = 4
  /\ lastKey > SetMin(S)
  /\ lastKey < SetMax(S)
  /\ \A i \in 1..3 : Trees[i].min_value # None /\ Trees[i].max_value # None

\* What C30 says of one node handed to rebalance.
RebalanceCallOk(node) ==
  /\ balance_factor(node) \in -2..2
  /\ HeightBalanced(node.left)
  /\ HeightBalanced(node.right)
  /\ HeightBalanced(rebalance(node))

\* C30: AVLTree: whenever rebalance is invoked during insert or remove (from
\* insert_rec, remove_node or detach_min), the node's balance factor lies in
\* [-2, 2] and both of its child subtrees satisfy the balance invariant; the
\* subtree it returns satisfies the balance invariant at every node.
C30_RebalanceCalls ==
  [][/\ lastOp' \in {"insert", "seq"} =>
          \A node \in rebalance_args_insert(avl.root, lastKey') :
            RebalanceCallOk(node)
     /\ lastOp' \in {"remove", "seq_remove"} =>
          \A node \in rebalance_args_remove(avl.root, lastKey') :
            RebalanceCallOk(node)]_vars

\* After a remove, the AVL tree is one on which some remove(k) hands
\* rebalance a node of balance factor 2 or -2, and some insert(k) does too.
C30_Witness ==
  /\ lastOp \in {"remove", "seq_remove"}
  /\ lastHad
  /\ \E k \in SeqKeys : \E node \in rebalance_args_remove(avl.root, k) :
       balance_factor(node) \in {-2, 2}
  /\ \E k \in SeqKeys : \E node \in rebalance_args_insert(avl.root, k) :
       balance_factor(node) \in {-2, 2}

====
